---- MODULE Spec2Model ----
(***************************************************************************)
(* Model of cdf_animation.py: a Streamlit script that generates six years  *)
(* of synthetic samples (generate_evolving_data), computes empirical CDFs  *)
(* (empirical_cdf) and walks the years in an animation loop controlled by  *)
(* the start/stop buttons.                                                 *)
(*                                                                         *)
(* One script run is a sequential process; pc is its position.  Reals are  *)
(* fixed-point integers in units of 1/Scale: with Scale = 10^6 every       *)
(* product with 0.7, 0.3 and the slider steps of 0.1 over the six years is *)
(* exact.  numpy's global generator is a small deterministic stream (a     *)
(* linear congruential generator) with the same interface: seed() sets the *)
(* state, every draw reads the state and advances it.                      *)
(***************************************************************************)
EXTENDS Integers, Sequences, FiniteSets, TLC

VARIABLES
    n_observations,   \* slider, line 20
    trend_strength,   \* slider, line 22, in tenths
    volatility,       \* slider, line 23, in tenths
    trigger,          \* button presses delivered to the script run
    rendered,         \* the buttons of lines 93/96 are on the page
    rng,              \* state of the process-wide np.random generator
    cache,            \* st.cache_data store of generate_evolving_data
    pc,               \* position of the script run
    data,             \* generate_evolving_data: local dict "data"
    gen_i,            \* generate_evolving_data: loop index i
    data_dict,        \* line 62
    stats_data,       \* lines 75-84
    csv_data,         \* lines 100-101
    start_animation,  \* line 93
    stop_animation,   \* line 96
    x_range,          \* line 117: <<x_min, x_max>>
    i,                \* line 119: index of the year the loop is at (6: used up)
    progress_bar,     \* lines 112/125/183
    status_text,      \* lines 113/126/184
    frames,           \* charts shown in plot_placeholder during this run
    success,          \* line 185 was executed in this run
    error,            \* exception that ended the script run
    stopAt,           \* number of frames shown when Stop was pressed mid-run
    returned,         \* every <<arguments, result>> the generator returned
    cdf_in,           \* argument of a stand-alone empirical_cdf call
    cdf_out           \* its result

vars == <<n_observations, trend_strength, volatility, trigger, rendered, rng,
          cache, pc, data, gen_i, data_dict, stats_data, csv_data,
          start_animation, stop_animation, x_range, i, progress_bar,
          status_text, frames, success, error, stopAt, returned,
          cdf_in, cdf_out>>

----------------------------------------------------------------------------
\* Bounds of the model

\* largest "Number of Observations" the slider offers (100..2000 in the app)
MaxObs == 2
\* number of states of the random stream
RngMod == 16
\* longest sample given to a stand-alone empirical_cdf call
MaxLen == 3
\* largest value in such a sample
MaxVal == 3

----------------------------------------------------------------------------
\* Program constants

FirstYear == 2010
NumYears == 6
base_mean == 50
base_std == 15
SeedValue == 42
Margin == 5

years == [k \in 1..NumYears |-> FirstYear + k - 1]

RECURSIVE Pow10(_)
Pow10(k) == IF k = 0 THEN 1 ELSE 10 * Pow10(k - 1)

\* fixed-point unit
Scale == Pow10(NumYears)

\* slider positions used (lines 20-23); trend and volatility in tenths:
\* every size up to MaxObs, the default trend 0.5, the least volatility 0.1
\* and the default volatility 1.0
ObsChoices == 1..MaxObs
TrendChoices == {5}
VolChoices == {1, 10}

EmptyDict == [y \in {} |-> <<>>]

----------------------------------------------------------------------------
\* np.random

np_random_seed_keep(s, seed) == s
np_random_seed(s, seed) == seed % RngMod

rng_next(s) == (5 * s + 1) % RngMod

\* a standard normal draw, one of -1, 0, 1
gauss(s) == (s % 3) - 1

\* np.random.normal(loc, scale): ValueError when scale < 0
np_random_normal(s, loc, scale) ==
    [value |-> loc + scale * gauss(s), rng |-> rng_next(s)]

\* np.random.uniform(low, high): low + (high - low) * u, u in eighths
np_random_uniform(s, low, high) ==
    [value |-> low + ((high - low) * (s % 8)) \div 8, rng |-> rng_next(s)]

\* np.random.normal(loc, scale, n): n draws
RECURSIVE np_random_normal_n(_, _, _, _)
np_random_normal_n(s, loc, scale, n) ==
    IF n = 0 THEN [values |-> <<>>, rng |-> s]
    ELSE LET d == np_random_normal(s, loc, scale)
             r == np_random_normal_n(d.rng, loc, scale, n - 1)
         IN [values |-> <<d.value>> \o r.values, rng |-> r.rng]

\* line 48: a new array; prev_values is left as it was
blend(prev_values, year_mean, noise) ==
    [values |-> [j \in 1..Len(prev_values) |->
                    (7 * prev_values[j] + 3 * year_mean) \div 10 + noise[j]],
     prev |-> prev_values]

\* lines 38-39
year_mean_of(s, trend_str, k) ==
    LET d == np_random_normal(s, 0, 2 * Scale)
    IN [value |-> base_mean * Scale + (trend_str * k * Scale) \div 10 + d.value,
        rng |-> d.rng]
year_std_of(s, vol) ==
    LET d == np_random_uniform(s, -2 * Scale, 2 * Scale)
    IN [value |-> (base_std * vol * Scale) \div 10 + d.value, rng |-> d.rng]

\* one iteration of the loop of lines 36-50 on the dict d, k = i
gen_year(s, d, k, n_obs, trend_str, vol) ==
    LET m == year_mean_of(s, trend_str, k)
        sd == year_std_of(m.rng, vol)
    IN IF sd.value < 0
       THEN [raised |-> TRUE, rng |-> sd.rng, data |-> d]
       ELSE IF k = 0
            THEN LET v == np_random_normal_n(sd.rng, m.value, sd.value, n_obs)
                 IN [raised |-> FALSE, rng |-> v.rng,
                     data |-> (years[1] :> v.values)]
            ELSE LET noise == np_random_normal_n(sd.rng, 0, sd.value, n_obs)
                     b == blend(d[years[k]], m.value, noise.values)
                 IN [raised |-> FALSE, rng |-> noise.rng,
                     data |-> [y \in DOMAIN d \cup {years[k + 1]} |->
                                 IF y = years[k + 1] THEN b.values
                                 ELSE IF y = years[k] THEN b.prev
                                 ELSE d[y]]]

\* lines 36-52: the loop from year number k + 1 on
RECURSIVE gen_loop(_, _, _, _, _, _)
gen_loop(s, d, k, n_obs, trend_str, vol) ==
    IF k = NumYears THEN [raised |-> FALSE, rng |-> s, data |-> d]
    ELSE LET r == gen_year(s, d, k, n_obs, trend_str, vol)
         IN IF r.raised THEN r
            ELSE gen_loop(r.rng, r.data, k + 1, n_obs, trend_str, vol)

\* lines 27-52, the whole body run from the generator state s
generate_evolving_data(s, n_obs, trend_str, vol) ==
    gen_loop(np_random_seed(s, SeedValue), EmptyDict, 0, n_obs, trend_str, vol)

----------------------------------------------------------------------------
\* numpy helpers used by the script

RECURSIVE InsertSorted(_, _)
InsertSorted(v, s) ==
    IF s = <<>> THEN <<v>>
    ELSE IF v <= Head(s) THEN <<v>> \o s
    ELSE <<Head(s)>> \o InsertSorted(v, Tail(s))

RECURSIVE SortAsc(_)
SortAsc(s) == IF s = <<>> THEN <<>> ELSE InsertSorted(Head(s), SortAsc(Tail(s)))

\* np.sort(a): a sorted copy; the argument keeps its order
ndarray_sort(a) == [result |-> SortAsc(a), arg |-> SortAsc(a)]
np_sort(a) == [result |-> SortAsc(a), arg |-> a]

RECURSIVE SeqMin(_)
SeqMin(s) == IF Len(s) = 1 THEN s[1]
             ELSE LET m == SeqMin(Tail(s)) IN IF s[1] <= m THEN s[1] ELSE m
RECURSIVE SeqMax(_)
SeqMax(s) == IF Len(s) = 1 THEN s[1]
             ELSE LET m == SeqMax(Tail(s)) IN IF s[1] >= m THEN s[1] ELSE m
RECURSIVE SeqSum(_)
SeqSum(s) == IF s = <<>> THEN 0 ELSE s[1] + SeqSum(Tail(s))

\* np.min / np.max: ValueError on an empty array (guarded by the callers)
np_min(a) == SeqMin(a)
np_max(a) == SeqMax(a)

\* f"{v:.2f}": v rounded to hundredths
fmt2(v) == (v + Scale \div 200) \div (Scale \div 100)
\* f"{np.mean(a):.2f}"
fmt2_mean(a) ==
    (2 * SeqSum(a) + Len(a) * (Scale \div 100)) \div (2 * Len(a) * (Scale \div 100))

\* np.percentile(a, p) for p = 25 * q, linear interpolation, as value / 4
np_percentile(a, q) ==
    LET s == SortAsc(a)
        pos4 == (Len(a) - 1) * q
        lo == pos4 \div 4 + 1
        hi == IF lo < Len(a) THEN lo + 1 ELSE lo
    IN <<4 * s[lo] + (pos4 % 4) * (s[hi] - s[lo]), 4>>

\* line 58: element k of np.arange(1, n + 1) / n, as the fraction <<k, n>>
cum_prob_from_zero(k, n) == <<k - 1, n>>
cum_prob(k, n) == <<k, n>>

\* lines 55-59
empirical_cdf(a) ==
    LET sorted_data == np_sort(a)
        n == Len(a)
    IN [x |-> sorted_data.result,
        y |-> [k \in 1..n |-> cum_prob(k, n)],
        arg |-> sorted_data.arg]

\* line 116: np.concatenate over the years, in order
RECURSIVE concat_upto(_, _)
concat_upto(d, k) == IF k = 0 THEN <<>> ELSE concat_upto(d, k - 1) \o d[years[k]]
first_year_values(d) == d[years[1]]
all_values(d) == concat_upto(d, NumYears)

\* line 117
x_limits(d) == <<np_min(all_values(d)) - Margin * Scale,
                 np_max(all_values(d)) + Margin * Scale>>

\* line 124
progress_from_zero(k) == <<k, NumYears>>
progress(k) == <<k + 1, NumYears>>

\* line 119: the loop starts at the first year whatever i was before
loop_resume(prev) == prev
loop_start(prev) == 0

\* lines 76-84 (Std Dev column not represented)
stats_row(d, y) ==
    [Year |-> y, Mean |-> fmt2_mean(d[y]), Min |-> fmt2(np_min(d[y])),
     Max |-> fmt2(np_max(d[y]))]

\* lines 100-101: one column per year, header first
to_csv(d) ==
    <<years>> \o [k \in 1..Len(d[years[1]]) |->
                    [j \in 1..NumYears |-> d[years[j]][k]]]

\* lines 128-177: the figure of year number k + 1
figure(d, k, xr, n_obs) ==
    LET year == years[k + 1]
        c == empirical_cdf(d[year])
    IN [year |-> year,
        x_cdf |-> c.x,
        y_cdf |-> c.y,
        quartiles |-> [q \in 1..3 |-> np_percentile(c.arg, q)],
        x_range |-> xr,
        n |-> n_obs,
        arg |-> c.arg]

----------------------------------------------------------------------------
\* State of the four-state controller of the design, read off the script

CtrlState ==
    IF pc \in {"loop", "sleep"} THEN "Running"
    ELSE IF pc \in {"cleanup", "done"} /\ start_animation
         THEN IF i = NumYears THEN "Completed" ELSE "Cancelled"
         ELSE "Idle"

Key == <<n_observations, trend_strength, volatility>>

----------------------------------------------------------------------------
Init ==
    /\ n_observations = MaxObs
    /\ trend_strength = 5
    /\ volatility = 10
    /\ trigger = [start |-> FALSE, stop |-> FALSE]
    /\ rendered = FALSE
    /\ rng \in 0..(RngMod - 1)
    /\ cache = [k \in {} |-> EmptyDict]
    /\ pc = "call_gen"
    /\ data = EmptyDict
    /\ gen_i = 0
    /\ data_dict = EmptyDict
    /\ stats_data = <<>>
    /\ csv_data = <<>>
    /\ start_animation = FALSE
    /\ stop_animation = FALSE
    /\ x_range = <<0, 0>>
    /\ i = 0
    /\ progress_bar = "none"
    /\ status_text = "none"
    /\ frames = <<>>
    /\ success = FALSE
    /\ error = "none"
    /\ stopAt = -1
    /\ returned = {}
    /\ cdf_in = <<>>
    /\ cdf_out = "none"

runVars == <<data, gen_i, data_dict, stats_data, csv_data, start_animation,
             stop_animation, x_range, i, progress_bar, status_text, frames,
             success, error, stopAt>>
cdfVars == <<cdf_in, cdf_out>>
sliderVars == <<n_observations, trend_strength, volatility>>

\* A widget interaction re-runs the script from the top (lines 20-23, 93, 96).
\* The sliders take any offered position; the buttons can only have been
\* pressed if the last run drew them, and presses made before the run starts
\* are delivered to it together.  Every name the run binds starts unbound;
\* i keeps the end position of the last loop until line 119 binds it again.
Rerun ==
    /\ pc \in {"done", "crashed"}
    /\ n_observations' \in ObsChoices
    /\ trend_strength' \in TrendChoices
    /\ volatility' \in VolChoices
    /\ trigger' \in IF rendered THEN [start : BOOLEAN, stop : BOOLEAN]
                    ELSE {[start |-> FALSE, stop |-> FALSE]}
    /\ pc' = "call_gen"
    /\ data' = EmptyDict
    /\ gen_i' = 0
    /\ data_dict' = EmptyDict
    /\ stats_data' = <<>>
    /\ csv_data' = <<>>
    /\ start_animation' = FALSE
    /\ stop_animation' = FALSE
    /\ x_range' = <<0, 0>>
    /\ progress_bar' = "none"
    /\ status_text' = "none"
    /\ frames' = <<>>
    /\ success' = FALSE
    /\ error' = "none"
    /\ stopAt' = -1
    /\ UNCHANGED <<i, rendered, rng, cache, returned, cdfVars>>

\* line 62 through @st.cache_data (line 26): a stored result is returned
CallGenHit ==
    /\ pc = "call_gen"
    /\ Key \in DOMAIN cache
    /\ data_dict' = cache[Key]
    /\ returned' = returned \cup {[key |-> Key, value |-> cache[Key]]}
    /\ pc' = "summary"
    /\ UNCHANGED <<sliderVars, trigger, rendered, rng, cache, data, gen_i,
                   stats_data, csv_data, start_animation, stop_animation,
                   x_range, i, progress_bar, status_text, frames, success,
                   error, stopAt, cdfVars>>

\* line 62: nothing stored for these arguments, the function body runs
CallGenMiss ==
    /\ pc = "call_gen"
    /\ Key \notin DOMAIN cache
    /\ pc' = "gen_seed"
    /\ UNCHANGED <<sliderVars, trigger, rendered, rng, cache, runVars,
                   returned, cdfVars>>

\* lines 28-34
GenSeed ==
    /\ pc = "gen_seed"
    /\ rng' = np_random_seed(rng, SeedValue)
    /\ data' = EmptyDict
    /\ gen_i' = 0
    /\ pc' = "gen_loop"
    /\ UNCHANGED <<sliderVars, trigger, rendered, cache, data_dict,
                   stats_data, csv_data, start_animation, stop_animation,
                   x_range, i, progress_bar, status_text, frames, success,
                   error, stopAt, returned, cdfVars>>

\* lines 36-50, one year whose spread is not negative
GenYear ==
    /\ pc = "gen_loop"
    /\ gen_i < NumYears
    /\ LET r == gen_year(rng, data, gen_i, n_observations, trend_strength,
                         volatility)
       IN /\ ~r.raised
          /\ rng' = r.rng
          /\ data' = r.data
    /\ gen_i' = gen_i + 1
    /\ UNCHANGED <<sliderVars, trigger, rendered, cache, pc, data_dict,
                   stats_data, csv_data, start_animation, stop_animation,
                   x_range, i, progress_bar, status_text, frames, success,
                   error, stopAt, returned, cdfVars>>

\* (variant of GenRaise that carries on with a constant sample)
GenRaiseSubstitute ==
    /\ pc = "gen_loop"
    /\ gen_i < NumYears
    /\ LET r == gen_year(rng, data, gen_i, n_observations, trend_strength,
                         volatility)
       IN /\ r.raised
          /\ rng' = r.rng
    /\ data' = [y \in DOMAIN data \cup {years[gen_i + 1]} |->
                  IF y = years[gen_i + 1]
                  THEN [j \in 1..n_observations |-> base_mean * Scale]
                  ELSE data[y]]
    /\ gen_i' = gen_i + 1
    /\ UNCHANGED <<sliderVars, trigger, rendered, cache, pc, data_dict,
                   stats_data, csv_data, start_animation, stop_animation,
                   x_range, i, progress_bar, status_text, frames, success,
                   error, stopAt, returned, cdfVars>>

\* lines 38-47: np.random.normal raises ValueError for a negative spread;
\* nothing catches it, the script run ends at line 62
GenRaise ==
    /\ pc = "gen_loop"
    /\ gen_i < NumYears
    /\ LET r == gen_year(rng, data, gen_i, n_observations, trend_strength,
                         volatility)
       IN /\ r.raised
          /\ rng' = r.rng
    /\ error' = "ValueError"
    /\ rendered' = FALSE
    /\ pc' = "crashed"
    /\ UNCHANGED <<sliderVars, trigger, cache, data, gen_i, data_dict,
                   stats_data, csv_data, start_animation, stop_animation,
                   x_range, i, progress_bar, status_text, frames, success,
                   stopAt, returned, cdfVars>>

\* lines 52 and 62: the result is stored and bound to data_dict
GenReturn ==
    /\ pc = "gen_loop"
    /\ gen_i = NumYears
    /\ cache' = [k \in DOMAIN cache \cup {Key} |->
                    IF k = Key THEN data ELSE cache[k]]
    /\ data_dict' = data
    /\ returned' = returned \cup {[key |-> Key, value |-> data]}
    /\ pc' = "summary"
    /\ UNCHANGED <<sliderVars, trigger, rendered, rng, data, gen_i,
                   stats_data, csv_data, start_animation, stop_animation,
                   x_range, i, progress_bar, status_text, frames, success,
                   error, stopAt, cdfVars>>

\* lines 64-87: layout, empty plot placeholder, statistics table
Summary ==
    /\ pc = "summary"
    /\ stats_data' = [k \in 1..NumYears |-> stats_row(data_dict, years[k])]
    /\ frames' = <<>>
    /\ pc' = "buttons"
    /\ UNCHANGED <<sliderVars, trigger, rendered, rng, cache, data, gen_i,
                   data_dict, csv_data, start_animation, stop_animation,
                   x_range, i, progress_bar, status_text, success, error,
                   stopAt, returned, cdfVars>>

\* lines 89-107: the two buttons report their presses, the export is built
Buttons ==
    /\ pc = "buttons"
    /\ start_animation' = trigger.start
    /\ stop_animation' = trigger.stop
    /\ csv_data' = to_csv(data_dict)
    /\ rendered' = TRUE
    /\ pc' = "anim_if"
    /\ UNCHANGED <<sliderVars, trigger, rng, cache, data, gen_i, data_dict,
                   stats_data, x_range, i, progress_bar, status_text, frames,
                   success, error, stopAt, returned, cdfVars>>

\* line 110 false: lines 187-212, the script run ends
AnimSkip ==
    /\ pc = "anim_if"
    /\ ~start_animation
    /\ pc' = "done"
    /\ UNCHANGED <<sliderVars, trigger, rendered, rng, cache, runVars,
                   returned, cdfVars>>

\* lines 110-119: progress bar, axis limits, the loop starts
AnimInit ==
    /\ pc = "anim_if"
    /\ start_animation
    /\ progress_bar' = <<0, 1>>
    /\ status_text' = "empty"
    /\ x_range' = x_limits(data_dict)
    /\ i' = loop_start(i)
    /\ pc' = "loop"
    /\ UNCHANGED <<sliderVars, trigger, rendered, rng, cache, data, gen_i,
                   data_dict, stats_data, csv_data, start_animation,
                   stop_animation, frames, success, error, stopAt, returned,
                   cdfVars>>

\* lines 120-121
LoopBreak ==
    /\ pc = "loop"
    /\ i < NumYears
    /\ stop_animation
    /\ pc' = "cleanup"
    /\ UNCHANGED <<sliderVars, trigger, rendered, rng, cache, runVars,
                   returned, cdfVars>>

\* lines 123-177: progress, status and the chart of years[i]
LoopFrame ==
    /\ pc = "loop"
    /\ i < NumYears
    /\ ~stop_animation
    /\ LET f == figure(data_dict, i, x_range, n_observations)
       IN /\ frames' = Append(frames,
                 [year |-> f.year, x_cdf |-> f.x_cdf, y_cdf |-> f.y_cdf,
                  quartiles |-> f.quartiles, x_range |-> f.x_range,
                  n |-> f.n, progress |-> progress(i)])
          /\ data_dict' = [data_dict EXCEPT ![f.year] = f.arg]
          /\ status_text' = f.year
    /\ progress_bar' = progress(i)
    /\ pc' = "sleep"
    /\ UNCHANGED <<sliderVars, trigger, rendered, rng, cache, data, gen_i,
                   stats_data, csv_data, start_animation, stop_animation,
                   x_range, i, success, error, stopAt, returned, cdfVars>>

\* line 180, then the loop takes the next year
Sleep ==
    /\ pc = "sleep"
    /\ i' = i + 1
    /\ pc' = "loop"
    /\ UNCHANGED <<sliderVars, trigger, rendered, rng, cache, data, gen_i,
                   data_dict, stats_data, csv_data, start_animation,
                   stop_animation, x_range, progress_bar, status_text, frames,
                   success, error, stopAt, returned, cdfVars>>

\* line 119: the years are used up
LoopExit ==
    /\ pc = "loop"
    /\ i = NumYears
    /\ pc' = "cleanup"
    /\ UNCHANGED <<sliderVars, trigger, rendered, rng, cache, runVars,
                   returned, cdfVars>>

\* lines 182-185, then lines 187-212
Cleanup ==
    /\ pc = "cleanup"
    /\ progress_bar' = "empty"
    /\ status_text' = "empty"
    /\ success' = TRUE
    /\ pc' = "done"
    /\ UNCHANGED <<sliderVars, trigger, rendered, rng, cache, data, gen_i,
                   data_dict, stats_data, csv_data, start_animation,
                   stop_animation, x_range, i, frames, error, stopAt,
                   returned, cdfVars>>

\* The user presses Stop while the loop is running.  stop_animation was
\* bound at line 96 before the loop; nothing in the loop assigns it again.
StopClick ==
    /\ pc \in {"loop", "sleep"}
    /\ stopAt = -1
    /\ stopAt' = Len(frames)
    /\ UNCHANGED <<sliderVars, trigger, rendered, rng, cache, pc, data, gen_i,
                   data_dict, stats_data, csv_data, start_animation,
                   stop_animation, x_range, i, progress_bar, status_text,
                   frames, success, error, returned, cdfVars>>

\* The st.cache_data store is emptied between script runs
ClearCache ==
    /\ pc \in {"done", "crashed"}
    /\ DOMAIN cache # {}
    /\ cache' = [k \in {} |-> EmptyDict]
    /\ UNCHANGED <<sliderVars, trigger, rendered, rng, pc, runVars, returned,
                   cdfVars>>

Next ==
    \/ Rerun
    \/ CallGenHit
    \/ CallGenMiss
    \/ GenSeed
    \/ GenYear
    \/ GenRaise
    \/ GenReturn
    \/ Summary
    \/ Buttons
    \/ AnimSkip
    \/ AnimInit
    \/ LoopBreak
    \/ LoopFrame
    \/ Sleep
    \/ LoopExit
    \/ Cleanup
    \/ StopClick
    \/ ClearCache

Spec == Init /\ [][Next]_vars

----------------------------------------------------------------------------
\* generate_evolving_data as a function: one call on any arguments

GenArgObs == 0..MaxObs
GenArgVol == {0, 1, 10}

InitGen ==
    /\ n_observations \in GenArgObs
    /\ trend_strength \in TrendChoices
    /\ volatility \in GenArgVol
    /\ trigger = [start |-> FALSE, stop |-> FALSE]
    /\ rendered = FALSE
    /\ rng \in 0..(RngMod - 1)
    /\ cache = [k \in {} |-> EmptyDict]
    /\ pc = "call_gen"
    /\ data = EmptyDict
    /\ gen_i = 0
    /\ data_dict = EmptyDict
    /\ stats_data = <<>>
    /\ csv_data = <<>>
    /\ start_animation = FALSE
    /\ stop_animation = FALSE
    /\ x_range = <<0, 0>>
    /\ i = 0
    /\ progress_bar = "none"
    /\ status_text = "none"
    /\ frames = <<>>
    /\ success = FALSE
    /\ error = "none"
    /\ stopAt = -1
    /\ returned = {}
    /\ cdf_in = <<>>
    /\ cdf_out = "none"

NextGen ==
    \/ CallGenMiss
    \/ GenSeed
    \/ GenYear
    \/ GenRaise
    \/ GenReturn

SpecGen == InitGen /\ [][NextGen]_vars

----------------------------------------------------------------------------
\* empirical_cdf as a function: one call on any sample

RECURSIVE SeqsUpTo(_, _)
SeqsUpTo(S, n) ==
    IF n = 0 THEN {<<>>}
    ELSE LET shorter == SeqsUpTo(S, n - 1)
         IN shorter \cup {Append(q, v) : q \in shorter, v \in S}

InitCdf ==
    /\ n_observations = MaxObs
    /\ trend_strength = 5
    /\ volatility = 10
    /\ trigger = [start |-> FALSE, stop |-> FALSE]
    /\ rendered = FALSE
    /\ rng = 0
    /\ cache = [k \in {} |-> EmptyDict]
    /\ pc = "cdf_call"
    /\ data = EmptyDict
    /\ gen_i = 0
    /\ data_dict = EmptyDict
    /\ stats_data = <<>>
    /\ csv_data = <<>>
    /\ start_animation = FALSE
    /\ stop_animation = FALSE
    /\ x_range = <<0, 0>>
    /\ i = 0
    /\ progress_bar = "none"
    /\ status_text = "none"
    /\ frames = <<>>
    /\ success = FALSE
    /\ error = "none"
    /\ stopAt = -1
    /\ returned = {}
    /\ cdf_in \in SeqsUpTo(0..MaxVal, MaxLen)
    /\ cdf_out = "none"

\* lines 55-59
CdfApply ==
    /\ pc = "cdf_call"
    /\ LET c == empirical_cdf(cdf_in)
       IN /\ cdf_out' = [x |-> c.x, y |-> c.y]
          /\ cdf_in' = c.arg
    /\ pc' = "cdf_done"
    /\ UNCHANGED <<sliderVars, trigger, rendered, rng, cache, runVars,
                   returned>>

NextCdf == CdfApply

SpecCdf == InitCdf /\ [][NextCdf]_vars

----------------------------------------------------------------------------
\* Properties

Started == pc \in {"loop", "sleep", "cleanup", "done"} /\ start_animation

\* the fraction f equals num / den
FracEq(f, num, den) == f[1] * den = num * f[2]

\* C1: a run started with no stop signal, and in which none is raised, shows
\* the years in ascending order without gap or repetition, frame k reporting
\* progress k/6, and ends Completed with all six frames shown.
C1_SixFramesInOrder ==
    (Started /\ ~stop_animation /\ stopAt = -1) =>
        /\ Len(frames) <= NumYears
        /\ \A k \in 1..Len(frames) :
              /\ frames[k].year = years[k]
              /\ FracEq(frames[k].progress, k, NumYears)
        /\ pc = "done" =>
              /\ Len(frames) = NumYears
              /\ FracEq(frames[NumYears].progress, 1, 1)
              /\ CtrlState = "Completed"
              /\ success

C1_Witness ==
    /\ pc = "done"
    /\ start_animation /\ ~stop_animation /\ stopAt = -1
    /\ Len(frames) = NumYears
    /\ success

\* C2: a stop signal raised after frame 3 and before frame 4 ends the run
\* Cancelled with exactly those 3 frames; a 4th frame is never shown.
C2_StopAfterThree ==
    stopAt = 3 =>
        /\ Len(frames) <= 3
        /\ pc = "done" => (CtrlState = "Cancelled" /\ Len(frames) = 3)

\* C3: in Cancelled and Completed no frame is shown and the position stays;
\* a start request from either begins the loop at position 0, so the first
\* frame of every run is the first year.
C3_TerminalThenRestart ==
    /\ [][ /\ CtrlState \in {"Cancelled", "Completed"} =>
                /\ i' = i
                /\ frames' = frames \/ (pc' = "call_gen" /\ frames' = <<>>)
           /\ (pc = "anim_if" /\ pc' = "loop") => (i' = 0 /\ frames' = <<>>)
         ]_vars
    /\ [](frames # <<>> => frames[1].year = FirstYear)

\* a start request is being served after a run that ended Completed: i still
\* holds the end position of that run
C3_Witness ==
    /\ pc = "anim_if"
    /\ start_animation
    /\ i = NumYears

C5_RejectsBadConfig ==
    (n_observations = 0 \/ volatility = 0) =>
        /\ data = EmptyDict
        /\ data_dict = EmptyDict
        /\ pc \in {"summary", "crashed"} => error = "ConfigurationError"

\* C6: every frame of a run carries the one x range computed before the
\* first frame: (least sample of all years - margin, greatest + margin); it
\* contains every sample of every year.
C6_SharedRange ==
    \A k \in 1..Len(frames) :
        /\ frames[k].x_range = x_range
        /\ frames[k].x_range = frames[1].x_range
        /\ \A y \in DOMAIN data_dict : \A j \in 1..Len(data_dict[y]) :
              /\ frames[k].x_range[1] + Margin * Scale <= data_dict[y][j]
              /\ data_dict[y][j] <= frames[k].x_range[2] - Margin * Scale
        /\ \E y \in DOMAIN data_dict : \E j \in 1..Len(data_dict[y]) :
              data_dict[y][j] = frames[k].x_range[1] + Margin * Scale
        /\ \E y \in DOMAIN data_dict : \E j \in 1..Len(data_dict[y]) :
              data_dict[y][j] = frames[k].x_range[2] - Margin * Scale

C6_Witness ==
    /\ Len(frames) = NumYears
    /\ \E j \in 1..n_observations :
          \/ data_dict[years[1]][j] > np_max(data_dict[years[NumYears]])
          \/ data_dict[years[1]][j] < np_min(data_dict[years[NumYears]])

Count(s, v) == Cardinality({k \in 1..Len(s) : s[k] = v})

\* C7: for a sample of length n >= 1, empirical_cdf returns n values, the
\* sample sorted ascending (a permutation of it), and n probabilities, the
\* k-th being k/n: non-decreasing, first 1/n, last exactly 1.
C7_EmpiricalCdf ==
    (pc = "cdf_done" /\ Len(cdf_in) >= 1) =>
        LET n == Len(cdf_in)
            x == cdf_out.x
            y == cdf_out.y
        IN /\ Len(x) = n
           /\ Len(y) = n
           /\ \A k \in 1..(n - 1) : x[k] <= x[k + 1]
           /\ \A v \in 0..MaxVal : Count(x, v) = Count(cdf_in, v)
           /\ \A k \in 1..n : FracEq(y[k], k, n)
           /\ \A k \in 1..(n - 1) : y[k][1] * y[k + 1][2] <= y[k + 1][1] * y[k][2]
           /\ FracEq(y[1], 1, n)
           /\ FracEq(y[n], 1, 1)

C7_Witness ==
    /\ pc = "cdf_done"
    /\ Len(cdf_in) = MaxLen
    /\ cdf_out.x # cdf_in

\* C8: all results the generator returns for the same arguments are equal,
\* whatever calls happened in between (also when the body runs again after
\* the store was emptied).
C8_Deterministic ==
    /\ \A a \in returned : \A b \in returned :
          a.key = b.key => a.value = b.value
    /\ (pc = "gen_loop" /\ gen_i = NumYears) =>
          \A a \in returned : a.key = Key => a.value = data

C8_Witness ==
    /\ pc = "gen_loop"
    /\ gen_i = NumYears
    /\ \E a \in returned : a.key = Key
    /\ \E a \in returned : a.key # Key

\* C9: an array, once in the generator's dict, in data_dict or in the store,
\* keeps its values at their positions through every step: the later years'
\* generation, the statistics, the export, the x range, the CDFs and frames.
C9_ReadOnly ==
    [][ /\ \A y \in DOMAIN data \cap DOMAIN data' : data'[y] = data[y]
        /\ \A y \in DOMAIN data_dict \cap DOMAIN data_dict' :
              data_dict'[y] = data_dict[y]
        /\ \A k \in DOMAIN cache \cap DOMAIN cache' : cache'[k] = cache[k]
      ]_vars

C9_Witness ==
    /\ pc = "done"
    /\ Len(frames) = NumYears
    /\ stopAt # -1
    /\ csv_data # <<>>
    /\ \E y \in DOMAIN data_dict : data_dict[y] # SortAsc(data_dict[y])
    /\ data_dict = cache[Key]

\* C10: the completion outcome is reported only for runs that showed a frame
\* for every year.
C10_NoSilentTruncation ==
    success => Len(frames) = NumYears

====
